---- MODULE Spec2Model ----
(***************************************************************************)
(* TestExecutor (openhtf/exe/__init__.py): one worker thread running       *)
(* _ThreadProc, and external callers of Start, Stop, Wait and Finalize.    *)
(* Every worker action is one statement of the source, named by its line.  *)
(***************************************************************************)
EXTENDS Integers, Sequences, FiniteSets, TLC

\* Bounds of the model.
MaxPhases == 2
MaxWaitCalls == 1

\* conf.teardown_timeout_s: its declared default (lines 37-38).
teardown_timeout_s == 3

\* The timeouts a teardown phase passed to the executor may declare; 0 stands
\* for a phase that declares none.
DeclaredTimeouts == {0, 10}

\* The release actions the worker registers on the ExitStack.
Callbacks == {"TearDownPlugs", "ExecutorStop"}

\* The places of the source that call TestState.Finalize.
FinalizeSites == {"L94", "L105", "L180", "L184"}

VARIABLES
  started,        \* Start() was called
  hasTeardown,    \* self._teardown_function is set
  declared,       \* timeout_s the teardown_function argument declared
  timeout_s,      \* self._teardown_function.options.timeout_s
  trigger,        \* self._test_start: "absent", "returns" or "blocks"
  wpc,            \* line the worker is at
  wexc,           \* the failure the worker is unwinding with, or "none"
  wcb,            \* release action the worker's ExitStack.__exit__ is running
  lock,           \* holder of self._lock: "none", "worker" or "stop"
  exit_stack,     \* self._exit_stack: "unset", "None" or "stack"
  test_state,     \* self._test_state: "unset", "None" or "obj"
  callbacks,      \* the ExitStack's pending release actions, last is top
  registered,     \* release actions that were pushed on the ExitStack
  invoked,        \* per release action: invocations made by a close
  completed,      \* per release action: invocations that have ended
  directTearDown, \* TearDownPlugs calls of the lost-race path (line 142)
  plugsInit,      \* InitializePlugs returned successfully
  is_finalized,   \* TestState.is_finalized
  outcome,        \* TestState outcome: "none", "DERIVED", "FAIL", "ABORTED"
  finalizeCalls,  \* per call site: TestState.Finalize invocations
  refinalized,    \* TestState.Finalize invocations on a finalized TestState
  statusRunning,  \* SetStatusRunning calls
  pulled,         \* phase outcomes pulled from ExecutePhases
  applied,        \* outcomes given to SetStatusFromPhaseOutcome, in order
  cur,            \* the outcome pulled last
  phaseTerminated,\* the engine's Stop terminated the in-flight phase
  teardownRuns,   \* executions of the teardown phase
  killPending,    \* Kill() raised an asynchronous termination, not yet landed
  spc,            \* line the Stop() caller is at; "idle" before the first
                  \* call; after a call, how it ended
  scb,            \* release action Stop()'s close is running
  stopAfterExec,  \* a Stop() was called after SetStatusRunning
  stopUnfin,      \* such a Stop() began its close with the TestState unfinalized
  stopClosed,     \* such a Stop() finished closing the ExitStack
  stopEarly,      \* a Stop() completed while the worker was at lines 133-134
  tdEarly,        \* TearDownPlugs was invoked before executor.Stop had returned
  wtpc,           \* line the Wait() caller is at; "idle" before the first
                  \* call; after a call, how it ended
  waitCalls,      \* Wait() calls made
  fpc,            \* line the Finalize() caller is at; "idle" before the
                  \* first call; after a call, how it ended
  stopRepeat,     \* the Stop() in progress was called after an earlier
                  \* Stop() had returned or after the worker had ended
  stackClosed,    \* a Stop() has closed the ExitStack
  gres            \* how the last GetState() ended: what it returned, or
                  \* its failure; "idle" before the first call

vars == <<started, hasTeardown, trigger, wpc, wexc, wcb, lock, exit_stack,
          test_state, callbacks, registered, invoked, completed,
          directTearDown, plugsInit, is_finalized, outcome, finalizeCalls,
          refinalized, statusRunning, pulled, applied, cur, phaseTerminated,
          teardownRuns, killPending, spc, scb, stopAfterExec, stopUnfin,
          stopClosed, stopEarly, tdEarly, wtpc, waitCalls, fpc, declared,
          timeout_s, stopRepeat, stackClosed, gres>>

\* Groups of variables, for UNCHANGED.
cfgVars == <<hasTeardown, declared, timeout_s, trigger>>
stackVars == <<callbacks, registered, invoked, completed, tdEarly>>
tsVars == <<is_finalized, outcome, finalizeCalls, refinalized>>
phaseVars == <<statusRunning, pulled, applied, cur, teardownRuns>>
workerVars == <<wpc, wexc, wcb>>
stopVars == <<spc, scb, stopAfterExec, stopUnfin, stopClosed, stopEarly,
              stopRepeat, stackClosed>>
waitVars == <<wtpc, waitCalls>>
finVars == <<fpc>>
getVars == <<gres>>

\* How a call of Stop(), Wait() or Finalize() can end.
StopEnded == {"returned", "AttributeError", "IndexError"}
WaitEnded == {"returned", "AttributeError", "TestAlreadyFinalized",
              "KeyboardInterrupt"}
FinalizeEnded == {"returned", "AttributeError", "TestStopError",
                  "TestAlreadyFinalized"}

\* TeardownFunctionTimeout with line 61 left out: the wrapped phase keeps the
\* timeout it declared.
TeardownFunctionTimeout_Declared == declared

\* Lines 56-61: the timeout of self._teardown_function: the configured one,
\* whatever the teardown_function argument declared.
TeardownFunctionTimeout ==
  IF hasTeardown THEN teardown_timeout_s ELSE 0

Init ==
  /\ started = FALSE
  /\ hasTeardown \in BOOLEAN
  /\ declared \in (IF hasTeardown THEN DeclaredTimeouts ELSE {0})
  /\ timeout_s = TeardownFunctionTimeout
  /\ trigger \in {"absent", "returns", "blocks"}
  /\ wpc = "notstarted" /\ wexc = "none" /\ wcb = "none"
  /\ lock = "none"
  /\ exit_stack = "unset" /\ test_state = "unset"
  /\ callbacks = <<>> /\ registered = {}
  /\ invoked = [c \in Callbacks |-> 0]
  /\ completed = [c \in Callbacks |-> 0]
  /\ directTearDown = 0
  /\ plugsInit = FALSE
  /\ is_finalized = FALSE /\ outcome = "none"
  /\ finalizeCalls = [s \in FinalizeSites |-> 0]
  /\ refinalized = 0
  /\ statusRunning = 0 /\ pulled = 0 /\ applied = <<>> /\ cur = "none"
  /\ phaseTerminated = FALSE /\ teardownRuns = 0
  /\ killPending = FALSE
  /\ spc = "idle" /\ scb = "none"
  /\ stopAfterExec = FALSE /\ stopUnfin = FALSE /\ stopClosed = FALSE
  /\ stopEarly = FALSE /\ tdEarly = FALSE
  /\ wtpc = "idle" /\ waitCalls = 0
  /\ fpc = "idle"
  /\ stopRepeat = FALSE /\ stackClosed = FALSE
  /\ gres = "idle"

(***************************************************************************)
(* Collaborators: TestState and the ExitStack.                             *)
(***************************************************************************)

\* TestState.Finalize(outcome) called from `site`: fails, changing nothing,
\* when the TestState is already finalized.
TSFinalize(site, o) ==
  /\ finalizeCalls' = [finalizeCalls EXCEPT ![site] = @ + 1]
  /\ IF is_finalized
       THEN /\ refinalized' = refinalized + 1
            /\ UNCHANGED <<is_finalized, outcome>>
       ELSE /\ is_finalized' = TRUE
            /\ outcome' = o
            /\ UNCHANGED refinalized

\* TestState.SetStatusFromPhaseOutcome(k): TRUE means stop early.  Whether
\* the final status of an early halt leaves the TestState finalized is not
\* settled by its contract: `fin` takes both answers.
SetStatusFromPhaseOutcome(k, fin) ==
  /\ applied' = Append(applied, k)
  /\ IF k = "halt" /\ fin /\ ~is_finalized
       THEN /\ is_finalized' = TRUE
            /\ outcome' = "FAIL"
       ELSE UNCHANGED <<is_finalized, outcome>>
  /\ UNCHANGED <<finalizeCalls, refinalized>>

\* ExitStack.callback(cb): push a release action.
Push(cb) ==
  /\ callbacks' = Append(callbacks, cb)
  /\ registered' = registered \cup {cb}
  /\ UNCHANGED <<invoked, completed, tdEarly>>

\* The body of the loop of ExitStack.close()/__exit__, on a stack that is not
\* empty: pop the top release action and call it.  PhaseExecutor.Stop
\* terminates the in-flight phase.
PopAndInvoke ==
  LET cb == callbacks[Len(callbacks)] IN
  /\ callbacks' = SubSeq(callbacks, 1, Len(callbacks) - 1)
  /\ invoked' = [invoked EXCEPT ![cb] = @ + 1]
  /\ tdEarly' = (tdEarly \/ (/\ cb = "TearDownPlugs"
                             /\ "ExecutorStop" \in registered
                             /\ completed["ExecutorStop"] = 0))
  /\ phaseTerminated' = (phaseTerminated \/ (cb = "ExecutorStop" /\ wpc = "L175b"))
  /\ UNCHANGED <<registered, completed>>

\* The release action `cb` ends.
CallbackEnds(cb) ==
  /\ completed' = [completed EXCEPT ![cb] = @ + 1]
  /\ UNCHANGED <<callbacks, registered, invoked, tdEarly>>

(***************************************************************************)
(* The worker: KillableThread.run -> _ThreadProc -> _ExecuteTestPhases.    *)
(***************************************************************************)

\* A failure raised inside the 'with ExitStack()' block: a held lock is
\* released and ExitStack.__exit__ runs.
WRaise(e) ==
  /\ wexc' = e
  /\ wpc' = "L119x"
  /\ lock' = IF lock = "worker" THEN "none" ELSE lock

WorkerAlive == wpc \notin {"notstarted", "done"}

\* Start(): line 69.
Start ==
  /\ ~started
  /\ started' = TRUE
  /\ wpc' = "L114"
  /\ UNCHANGED <<cfgVars, wexc, wcb, lock, exit_stack, test_state, stackVars,
                 directTearDown, plugsInit, tsVars, phaseVars, phaseTerminated,
                 killPending, stopVars, waitVars, finVars, getVars>>

\* Line 114: with self._lock.
W_L114 ==
  /\ wpc = "L114" /\ lock = "none"
  /\ lock' = "worker" /\ wpc' = "L115"
  /\ UNCHANGED <<started, cfgVars, wexc, wcb, exit_stack, test_state, stackVars,
                 directTearDown, plugsInit, tsVars, phaseVars, phaseTerminated,
                 killPending, stopVars, waitVars, finVars, getVars>>

\* Line 115: self._exit_stack = None, and the lock is released.
W_L115 ==
  /\ wpc = "L115"
  /\ exit_stack' = "None" /\ lock' = "none" /\ wpc' = "L116"
  /\ UNCHANGED <<started, cfgVars, wexc, wcb, test_state, stackVars,
                 directTearDown, plugsInit, tsVars, phaseVars, phaseTerminated,
                 killPending, stopVars, waitVars, finVars, getVars>>

\* Lines 116-117: self._test_state = None.
W_L116 ==
  /\ wpc = "L116"
  /\ test_state' = "None" /\ wpc' = "L119"
  /\ UNCHANGED <<started, cfgVars, wexc, wcb, lock, exit_stack, stackVars,
                 directTearDown, plugsInit, tsVars, phaseVars, phaseTerminated,
                 killPending, stopVars, waitVars, finVars, getVars>>

\* Line 119: with contextlib.ExitStack() as exit_stack: a new, empty stack.
W_L119 ==
  /\ wpc = "L119"
  /\ callbacks' = <<>> /\ wpc' = "L124"
  /\ UNCHANGED <<started, cfgVars, wexc, wcb, lock, exit_stack, test_state,
                 registered, invoked, completed, tdEarly,
                 directTearDown, plugsInit, tsVars, phaseVars, phaseTerminated,
                 killPending, stopVars, waitVars, finVars, getVars>>

\* Line 124: with self._lock.
W_L124 ==
  /\ wpc = "L124" /\ lock = "none"
  /\ lock' = "worker" /\ wpc' = "L126"
  /\ UNCHANGED <<started, cfgVars, wexc, wcb, exit_stack, test_state, stackVars,
                 directTearDown, plugsInit, tsVars, phaseVars, phaseTerminated,
                 killPending, stopVars, waitVars, finVars, getVars>>

\* W_L126 with the lock kept: lines 128-134 moved into the locked block.
W_L126_KeepLock ==
  /\ wpc = "L126"
  /\ exit_stack' = "stack" /\ wpc' = "L128"
  /\ UNCHANGED <<started, cfgVars, wexc, wcb, lock, test_state, stackVars,
                 directTearDown, plugsInit, tsVars, phaseVars, phaseTerminated,
                 killPending, stopVars, waitVars, finVars, getVars>>

\* Line 126: self._exit_stack = exit_stack, and the lock is released.
W_L126 ==
  /\ wpc = "L126"
  /\ exit_stack' = "stack" /\ lock' = "none" /\ wpc' = "L128"
  /\ UNCHANGED <<started, cfgVars, wexc, wcb, test_state, stackVars,
                 directTearDown, plugsInit, tsVars, phaseVars, phaseTerminated,
                 killPending, stopVars, waitVars, finVars, getVars>>

\* Line 128: self._test_state = test_state.TestState(...).
W_L128 ==
  /\ wpc = "L128"
  /\ test_state' = "obj" /\ wpc' = "L133"
  /\ UNCHANGED <<started, cfgVars, wexc, wcb, lock, exit_stack, stackVars,
                 directTearDown, plugsInit, tsVars, phaseVars, phaseTerminated,
                 killPending, stopVars, waitVars, finVars, getVars>>

\* Line 133 and _WaitForTestStart (158-162): the start trigger returns, or
\* there is none; a trigger that blocks keeps the worker here.
W_L133 ==
  /\ wpc = "L133" /\ trigger # "blocks"
  /\ wpc' = "L134"
  /\ UNCHANGED <<started, cfgVars, wexc, wcb, lock, exit_stack, test_state,
                 stackVars, directTearDown, plugsInit, tsVars, phaseVars,
                 phaseTerminated, killPending, stopVars, waitVars,
                 finVars, getVars>>

\* Line 134: InitializePlugs() returns, or fails with PlugInitError.
W_L134 ==
  /\ wpc = "L134"
  /\ \E ok \in BOOLEAN :
       IF ok THEN /\ plugsInit' = TRUE /\ wpc' = "L136"
                  /\ UNCHANGED <<wexc, lock>>
             ELSE /\ WRaise("PlugInitError")
                  /\ UNCHANGED plugsInit
  /\ UNCHANGED <<started, cfgVars, wcb, exit_stack, test_state, stackVars,
                 directTearDown, tsVars, phaseVars, phaseTerminated,
                 killPending, stopVars, waitVars, finVars, getVars>>

\* Line 136: with self._lock.
W_L136 ==
  /\ wpc = "L136" /\ lock = "none"
  /\ lock' = "worker" /\ wpc' = "L137"
  /\ UNCHANGED <<started, cfgVars, wexc, wcb, exit_stack, test_state, stackVars,
                 directTearDown, plugsInit, tsVars, phaseVars, phaseTerminated,
                 killPending, stopVars, waitVars, finVars, getVars>>

\* Lines 137-143: if not self._exit_stack: TearDownPlugs(); raise
\* TestStopError.
W_L137 ==
  /\ wpc = "L137"
  /\ IF exit_stack # "stack"
       THEN /\ directTearDown' = directTearDown + 1
            /\ WRaise("TestStopError")
       ELSE /\ wpc' = "L146"
            /\ UNCHANGED <<directTearDown, wexc, lock>>
  /\ UNCHANGED <<started, cfgVars, wcb, exit_stack, test_state, stackVars,
                 plugsInit, tsVars, phaseVars, phaseTerminated,
                 killPending, stopVars, waitVars, finVars, getVars>>

\* Line 146: exit_stack.callback(TearDownPlugs).
W_L146 ==
  /\ wpc = "L146"
  /\ Push("TearDownPlugs")
  /\ wpc' = "L149"
  /\ UNCHANGED <<started, cfgVars, wexc, wcb, lock, exit_stack, test_state,
                 directTearDown, plugsInit, tsVars, phaseVars, phaseTerminated,
                 killPending, stopVars, waitVars, finVars, getVars>>

\* Line 149 and _MakePhaseExecutor (164-168): exit_stack.callback(
\* executor.Stop); the lock is released on leaving the block.
W_L149 ==
  /\ wpc = "L149"
  /\ Push("ExecutorStop")
  /\ lock' = "none" /\ wpc' = "L172"
  /\ UNCHANGED <<started, cfgVars, wexc, wcb, exit_stack, test_state,
                 directTearDown, plugsInit, tsVars, phaseVars, phaseTerminated,
                 killPending, stopVars, waitVars, finVars, getVars>>

\* Line 172: self._test_state.SetStatusRunning().
W_L172 ==
  /\ wpc = "L172"
  /\ statusRunning' = statusRunning + 1 /\ wpc' = "L175"
  /\ UNCHANGED <<started, cfgVars, wexc, wcb, lock, exit_stack, test_state,
                 stackVars, directTearDown, plugsInit, tsVars, pulled, applied,
                 cur, teardownRuns, phaseTerminated, killPending, stopVars, waitVars, finVars, getVars>>

\* Line 175: pull the next outcome from executor.ExecutePhases(phases).  The
\* sequence is exhausted, or the next phase yields an outcome ("ok", or
\* "halt" for which SetStatusFromPhaseOutcome answers TRUE), or it blocks, or
\* a KeyboardInterrupt comes out of the iteration.
W_L175 ==
  /\ wpc = "L175"
  /\ \E k \in {"exhausted", "ok", "halt", "block", "interrupt"} :
       /\ k \in {"ok", "halt", "block"} => pulled < MaxPhases
       /\ wpc' = CASE k = "exhausted" -> "L180"
                   [] k = "interrupt" -> "L184"
                   [] k = "block" -> "L175b"
                   [] OTHER -> "L177"
       /\ pulled' = IF k \in {"ok", "halt", "block"} THEN pulled + 1 ELSE pulled
       /\ cur' = IF k \in {"ok", "halt"} THEN k ELSE cur
  /\ UNCHANGED <<started, cfgVars, wexc, wcb, lock, exit_stack, test_state,
                 stackVars, directTearDown, plugsInit, tsVars, statusRunning,
                 applied, teardownRuns, phaseTerminated, killPending, stopVars, waitVars, finVars, getVars>>

\* Line 175, in a phase that blocks: it yields its outcome only once
\* PhaseExecutor.Stop has terminated it.
W_L175b ==
  /\ wpc = "L175b" /\ phaseTerminated
  /\ \E k \in {"ok", "halt"} : cur' = k
  /\ phaseTerminated' = FALSE /\ wpc' = "L177"
  /\ UNCHANGED <<started, cfgVars, wexc, wcb, lock, exit_stack, test_state,
                 stackVars, directTearDown, plugsInit, tsVars, statusRunning,
                 pulled, applied, teardownRuns, killPending, stopVars, waitVars, finVars, getVars>>

\* W_L177 without the break of line 178.
W_L177_NoBreak ==
  /\ wpc = "L177"
  /\ \E fin \in BOOLEAN : SetStatusFromPhaseOutcome(cur, fin)
  /\ wpc' = "L175"
  /\ UNCHANGED <<started, cfgVars, wexc, wcb, lock, exit_stack, test_state,
                 stackVars, directTearDown, plugsInit, statusRunning, pulled,
                 cur, teardownRuns, phaseTerminated, killPending, stopVars, waitVars, finVars, getVars>>

\* Lines 177-178: if SetStatusFromPhaseOutcome(phase_outcome): break.
W_L177 ==
  /\ wpc = "L177"
  /\ \E fin \in BOOLEAN : SetStatusFromPhaseOutcome(cur, fin)
  /\ wpc' = IF cur = "halt" THEN "L189" ELSE "L175"
  /\ UNCHANGED <<started, cfgVars, wexc, wcb, lock, exit_stack, test_state,
                 stackVars, directTearDown, plugsInit, statusRunning, pulled,
                 cur, teardownRuns, phaseTerminated, killPending, stopVars, waitVars, finVars, getVars>>

\* W_L180 without the for loop's else clause.
W_L180_NoFinalize ==
  /\ wpc = "L180"
  /\ wpc' = "L189"
  /\ UNCHANGED <<started, cfgVars, wexc, wcb, lock, exit_stack, test_state,
                 stackVars, directTearDown, plugsInit, tsVars, phaseVars,
                 phaseTerminated, killPending, stopVars, waitVars, finVars,
                 getVars>>

\* Lines 179-180: the for loop's else: self._test_state.Finalize().  Its
\* failure is no KeyboardInterrupt, so it leaves _ExecuteTestPhases.
W_L180 ==
  /\ wpc = "L180"
  /\ TSFinalize("L180", "DERIVED")
  /\ IF is_finalized
       THEN WRaise("TestAlreadyFinalized")
       ELSE /\ wpc' = "L189"
            /\ UNCHANGED <<wexc, lock>>
  /\ UNCHANGED <<started, cfgVars, wcb, exit_stack, test_state, stackVars,
                 directTearDown, plugsInit, phaseVars, phaseTerminated,
                 killPending, stopVars, waitVars, finVars, getVars>>

\* Lines 181-185: except KeyboardInterrupt: Finalize(ABORTED); raise.
W_L184 ==
  /\ wpc = "L184"
  /\ TSFinalize("L184", "ABORTED")
  /\ WRaise(IF is_finalized THEN "TestAlreadyFinalized" ELSE "KeyboardInterrupt")
  /\ UNCHANGED <<started, cfgVars, wcb, exit_stack, test_state, stackVars,
                 directTearDown, plugsInit, phaseVars, phaseTerminated,
                 killPending, stopVars, waitVars, finVars, getVars>>

\* Line 189: if self._teardown_function; without one the 'with' block ends.
W_L189 ==
  /\ wpc = "L189"
  /\ wpc' = IF hasTeardown THEN "L190" ELSE "L119x"
  /\ UNCHANGED <<started, cfgVars, wexc, wcb, lock, exit_stack, test_state,
                 stackVars, directTearDown, plugsInit, tsVars, phaseVars,
                 phaseTerminated, killPending, stopVars, waitVars,
                 finVars, getVars>>

\* Line 190: executor._ExecuteOnePhase(self._teardown_function), bounded by
\* its timeout; then the 'with' block ends.
W_L190 ==
  /\ wpc = "L190"
  /\ teardownRuns' = teardownRuns + 1 /\ wpc' = "L119x"
  /\ UNCHANGED <<started, cfgVars, wexc, wcb, lock, exit_stack, test_state,
                 stackVars, directTearDown, plugsInit, tsVars, statusRunning,
                 pulled, applied, cur, phaseTerminated, killPending, stopVars, waitVars, finVars, getVars>>

\* W_Exit as a plain block would leave it: the worker ends without running the
\* release actions.
W_Exit_NoRelease ==
  /\ wpc = "L119x"
  /\ wpc' = "done"
  /\ UNCHANGED <<started, cfgVars, wexc, wcb, lock, exit_stack, test_state,
                 stackVars, directTearDown, plugsInit, tsVars, phaseVars,
                 phaseTerminated, killPending, stopVars, waitVars, finVars, getVars>>

\* Line 119, leaving the 'with' block: the loop test of ExitStack.__exit__,
\* made without self._lock.  With no release action left the worker ends.
W_Exit ==
  /\ wpc = "L119x"
  /\ wpc' = IF callbacks = <<>> THEN "done" ELSE "L119pop"
  /\ UNCHANGED <<started, cfgVars, wexc, wcb, lock, exit_stack, test_state,
                 stackVars, directTearDown, plugsInit, tsVars, phaseVars,
                 phaseTerminated, killPending, stopVars, waitVars, finVars,
                 getVars>>

\* Line 119, the loop body of ExitStack.__exit__: pop the top release action
\* and call it.  When Stop()'s close has emptied the stack since the loop
\* test, the pop fails with IndexError, which leaves __exit__ and ends the
\* worker.
W_ExitPop ==
  /\ wpc = "L119pop"
  /\ IF callbacks = <<>>
       THEN /\ wpc' = "done" /\ wexc' = "IndexError"
            /\ UNCHANGED <<wcb, stackVars, phaseTerminated>>
       ELSE /\ PopAndInvoke
            /\ wcb' = callbacks[Len(callbacks)]
            /\ wpc' = "L119cb"
            /\ UNCHANGED wexc
  /\ UNCHANGED <<started, cfgVars, lock, exit_stack, test_state,
                 directTearDown, plugsInit, tsVars, phaseVars, killPending,
                 stopVars, waitVars, finVars, getVars>>

\* The release action called by the worker's __exit__ returns.
W_ExitCb ==
  /\ wpc = "L119cb"
  /\ CallbackEnds(wcb)
  /\ wcb' = "none" /\ wpc' = "L119x"
  /\ UNCHANGED <<started, cfgVars, wexc, lock, exit_stack, test_state,
                 directTearDown, plugsInit, tsVars, phaseVars, phaseTerminated,
                 killPending, stopVars, waitVars, finVars, getVars>>

\* The places where the worker waits, at which a requested termination lands:
\* the lock acquisitions, the start trigger, plug initialization, the phase
\* iteration, the teardown phase and a running release action.
KillPoints == {"L114", "L124", "L133", "L134", "L136", "L175", "L175b",
               "L190", "L119cb"}

\* The termination requested by Kill() is raised in the worker.  Before the
\* 'with' block it ends the worker; inside it, __exit__ runs; inside a release
\* action, __exit__ catches it, goes on with the remaining actions and raises
\* it again at the end.
KillLands ==
  /\ killPending /\ wpc \in KillPoints
  /\ killPending' = FALSE
  /\ CASE wpc = "L114" ->
            /\ wpc' = "done" /\ wexc' = "Kill"
            /\ UNCHANGED <<wcb, lock, stackVars>>
       [] wpc = "L119cb" ->
            /\ CallbackEnds(wcb)
            /\ wcb' = "none" /\ wpc' = "L119x" /\ wexc' = "Kill"
            /\ UNCHANGED lock
       [] OTHER ->
            /\ WRaise("Kill")
            /\ UNCHANGED <<wcb, stackVars>>
  /\ UNCHANGED <<started, cfgVars, exit_stack, test_state, directTearDown,
                 plugsInit, tsVars, phaseVars, phaseTerminated, stopVars, waitVars, finVars, getVars>>

(***************************************************************************)
(* Stop(): lines 71-77.                                                    *)
(***************************************************************************)

S_Call ==
  /\ spc \in {"idle"} \cup StopEnded
  /\ spc' = "L74"
  /\ stopAfterExec' = (stopAfterExec \/ (statusRunning > 0 /\ WorkerAlive))
  /\ stopRepeat' = (spc = "returned" \/ wpc = "done")
  /\ UNCHANGED <<started, cfgVars, workerVars, lock, exit_stack, test_state,
                 stackVars, directTearDown, plugsInit, tsVars, phaseVars,
                 phaseTerminated, killPending, scb, stopUnfin, stopClosed,
                 stopEarly, stackClosed, waitVars, finVars, getVars>>

\* S_L74 without the lock: Stop() reads the handle unguarded.
S_L74_NoLock ==
  /\ spc = "L74"
  /\ spc' = "L75"
  /\ UNCHANGED <<started, cfgVars, workerVars, lock, exit_stack, test_state,
                 stackVars, directTearDown, plugsInit, tsVars, phaseVars,
                 phaseTerminated, killPending, scb, stopAfterExec, stopUnfin,
                 stopClosed, stopEarly, stopRepeat, stackClosed, waitVars,
                 finVars, getVars>>

\* Line 74: with self._lock.
S_L74 ==
  /\ spc = "L74" /\ lock = "none"
  /\ lock' = "stop" /\ spc' = "L75"
  /\ UNCHANGED <<started, cfgVars, workerVars, exit_stack, test_state,
                 stackVars, directTearDown, plugsInit, tsVars, phaseVars,
                 phaseTerminated, killPending, scb, stopAfterExec, stopUnfin,
                 stopClosed, stopEarly, stopRepeat, stackClosed, waitVars,
                 finVars, getVars>>

\* Line 75: if self._exit_stack.  The attribute does not exist before the
\* worker ran line 115: the read fails and Stop() ends with that failure.
S_L75 ==
  /\ spc = "L75"
  /\ CASE exit_stack = "unset" ->
            /\ lock' = "none" /\ spc' = "AttributeError"
            /\ UNCHANGED stopUnfin
       [] exit_stack = "None" ->
            /\ lock' = "none" /\ spc' = "L77"
            /\ UNCHANGED stopUnfin
       [] OTHER ->
            /\ spc' = "L76"
            /\ stopUnfin' = (stopUnfin \/ (stopAfterExec /\ ~is_finalized))
            /\ UNCHANGED lock
  /\ UNCHANGED <<started, cfgVars, workerVars, exit_stack, test_state,
                 stackVars, directTearDown, plugsInit, tsVars, phaseVars,
                 phaseTerminated, killPending, scb, stopAfterExec, stopClosed,
                 stopEarly, stopRepeat, stackClosed, waitVars, finVars,
                 getVars>>

\* Line 76: self._exit_stack.close(), its loop test; with no release action
\* left the close is over and the lock is released.
S_L76 ==
  /\ spc = "L76"
  /\ IF callbacks = <<>>
       THEN /\ lock' = "none" /\ spc' = "L77"
            /\ stopClosed' = (stopClosed \/ stopAfterExec)
            /\ stackClosed' = TRUE
       ELSE /\ spc' = "L76pop"
            /\ UNCHANGED <<lock, stopClosed, stackClosed>>
  /\ UNCHANGED <<started, cfgVars, workerVars, exit_stack, test_state,
                 stackVars, directTearDown, plugsInit, tsVars, phaseVars,
                 phaseTerminated, killPending, scb, stopAfterExec, stopUnfin,
                 stopEarly, stopRepeat, waitVars, finVars, getVars>>

\* Line 76, the loop body of close(): pop the top release action and call it.
\* When the worker's __exit__, which does not take the lock, has emptied the
\* stack since the loop test, the pop fails with IndexError: the lock is
\* released and Stop() ends with that failure, line 77 not run.
S_L76pop ==
  /\ spc = "L76pop"
  /\ IF callbacks = <<>>
       THEN /\ lock' = "none" /\ spc' = "IndexError"
            /\ UNCHANGED <<scb, stackVars, phaseTerminated>>
       ELSE /\ PopAndInvoke
            /\ scb' = callbacks[Len(callbacks)]
            /\ spc' = "L76cb"
            /\ UNCHANGED lock
  /\ UNCHANGED <<started, cfgVars, workerVars, exit_stack, test_state,
                 directTearDown, plugsInit, tsVars, phaseVars, killPending,
                 stopAfterExec, stopUnfin, stopClosed, stopEarly, stopRepeat,
                 stackClosed, waitVars, finVars, getVars>>

\* The release action called by Stop()'s close returns.
S_L76cb ==
  /\ spc = "L76cb"
  /\ CallbackEnds(scb)
  /\ scb' = "none" /\ spc' = "L76"
  /\ UNCHANGED <<started, cfgVars, workerVars, lock, exit_stack, test_state,
                 directTearDown, plugsInit, tsVars, phaseVars, phaseTerminated,
                 killPending, stopAfterExec, stopUnfin, stopClosed, stopEarly,
                 stopRepeat, stackClosed, waitVars, finVars, getVars>>

\* KillableThread.Kill(): asks for the termination of a worker that is alive.
Kill == killPending' = (killPending \/ WorkerAlive)

\* Line 77: self.Kill(), and Stop() returns.
S_L77 ==
  /\ spc = "L77"
  /\ Kill
  /\ spc' = "returned"
  /\ stopEarly' = (stopEarly \/ wpc \in {"L133", "L134"})
  /\ UNCHANGED <<started, cfgVars, workerVars, lock, exit_stack, test_state,
                 stackVars, directTearDown, plugsInit, tsVars, phaseVars,
                 phaseTerminated, scb, stopAfterExec, stopUnfin, stopClosed,
                 stopRepeat, stackClosed, waitVars, finVars, getVars>>

(***************************************************************************)
(* Wait(): lines 98-106.                                                   *)
(***************************************************************************)

\* Line 101: self.join(...) begins; a thread that was not started cannot be
\* joined.
Wt_Call ==
  /\ wtpc \in {"idle"} \cup WaitEnded
  /\ started /\ waitCalls < MaxWaitCalls
  /\ wtpc' = "L101" /\ waitCalls' = waitCalls + 1
  /\ UNCHANGED <<started, cfgVars, workerVars, lock, exit_stack, test_state,
                 stackVars, directTearDown, plugsInit, tsVars, phaseVars,
                 phaseTerminated, killPending, stopVars, finVars, getVars>>

\* Line 101: the worker has ended, join returns and so does Wait().
Wt_Return ==
  /\ wtpc = "L101" /\ wpc = "done"
  /\ wtpc' = "returned"
  /\ UNCHANGED <<started, cfgVars, workerVars, lock, exit_stack, test_state,
                 stackVars, directTearDown, plugsInit, tsVars, phaseVars,
                 phaseTerminated, killPending, stopVars, waitCalls, finVars, getVars>>

\* Line 102: a KeyboardInterrupt arrives during the call of join, whether
\* the worker has ended or not.
Wt_Interrupt ==
  /\ wtpc = "L101"
  /\ wtpc' = "L103"
  /\ UNCHANGED <<started, cfgVars, workerVars, lock, exit_stack, test_state,
                 stackVars, directTearDown, plugsInit, tsVars, phaseVars,
                 phaseTerminated, killPending, stopVars, waitCalls, finVars, getVars>>

\* Lines 103-104: self._test_state.logger.info(...): fails when the attribute
\* is missing or None, and that failure leaves Wait().
Wt_L103 ==
  /\ wtpc = "L103"
  /\ wtpc' = IF test_state = "obj" THEN "L105" ELSE "AttributeError"
  /\ UNCHANGED <<started, cfgVars, workerVars, lock, exit_stack, test_state,
                 stackVars, directTearDown, plugsInit, tsVars, phaseVars,
                 phaseTerminated, killPending, stopVars, waitCalls, finVars, getVars>>

\* Line 105: self._test_state.Finalize(ABORTED); its failure leaves Wait().
Wt_L105 ==
  /\ wtpc = "L105"
  /\ TSFinalize("L105", "ABORTED")
  /\ wtpc' = IF is_finalized THEN "TestAlreadyFinalized" ELSE "L106"
  /\ UNCHANGED <<started, cfgVars, workerVars, lock, exit_stack, test_state,
                 stackVars, directTearDown, plugsInit, phaseVars,
                 phaseTerminated, killPending, stopVars, waitCalls, finVars, getVars>>

\* Line 106: raise.
Wt_L106 ==
  /\ wtpc = "L106"
  /\ wtpc' = "KeyboardInterrupt"
  /\ UNCHANGED <<started, cfgVars, workerVars, lock, exit_stack, test_state,
                 stackVars, directTearDown, plugsInit, tsVars, phaseVars,
                 phaseTerminated, killPending, stopVars, waitCalls, finVars, getVars>>

(***************************************************************************)
(* Finalize(): lines 79-96.                                                *)
(***************************************************************************)

F_Call ==
  /\ fpc \in {"idle"} \cup FinalizeEnded
  /\ fpc' = "L89"
  /\ UNCHANGED <<started, cfgVars, workerVars, lock, exit_stack, test_state,
                 stackVars, directTearDown, plugsInit, tsVars, phaseVars,
                 phaseTerminated, killPending, stopVars, waitVars, getVars>>

\* Lines 89-90: if not self._test_state: raise TestStopError.  The attribute
\* does not exist before the worker ran line 116.
F_L89 ==
  /\ fpc = "L89"
  /\ fpc' = CASE test_state = "unset" -> "AttributeError"
              [] test_state = "None" -> "TestStopError"
              [] OTHER -> "L92"
  /\ UNCHANGED <<started, cfgVars, workerVars, lock, exit_stack, test_state,
                 stackVars, directTearDown, plugsInit, tsVars, phaseVars,
                 phaseTerminated, killPending, stopVars, waitVars, getVars>>

\* Line 92: if not self._test_state.is_finalized.
F_L92 ==
  /\ fpc = "L92"
  /\ fpc' = IF is_finalized THEN "L96" ELSE "L94"
  /\ UNCHANGED <<started, cfgVars, workerVars, lock, exit_stack, test_state,
                 stackVars, directTearDown, plugsInit, tsVars, phaseVars,
                 phaseTerminated, killPending, stopVars, waitVars, getVars>>

\* Lines 93-94: self._test_state.Finalize(ABORTED); its failure leaves
\* Finalize().
F_L94 ==
  /\ fpc = "L94"
  /\ TSFinalize("L94", "ABORTED")
  /\ fpc' = IF is_finalized THEN "TestAlreadyFinalized" ELSE "L96"
  /\ UNCHANGED <<started, cfgVars, workerVars, lock, exit_stack, test_state,
                 stackVars, directTearDown, plugsInit, phaseVars,
                 phaseTerminated, killPending, stopVars, waitVars, getVars>>

\* Line 96: return self._test_state.
F_L96 ==
  /\ fpc = "L96"
  /\ fpc' = "returned"
  /\ UNCHANGED <<started, cfgVars, workerVars, lock, exit_stack, test_state,
                 stackVars, directTearDown, plugsInit, tsVars, phaseVars,
                 phaseTerminated, killPending, stopVars, waitVars, getVars>>

(***************************************************************************)
(* GetState(): lines 108-110.                                              *)
(***************************************************************************)

\* Line 110: return self._test_state.  The attribute does not exist before
\* the worker ran line 116: the read fails.
GetState ==
  /\ gres' = IF test_state = "unset" THEN "AttributeError" ELSE test_state
  /\ UNCHANGED <<started, cfgVars, workerVars, lock, exit_stack, test_state,
                 stackVars, directTearDown, plugsInit, tsVars, phaseVars,
                 phaseTerminated, killPending, stopVars, waitVars, finVars>>

(***************************************************************************)
(* The specification.                                                      *)
(***************************************************************************)

Worker ==
  \/ W_L114 \/ W_L115 \/ W_L116 \/ W_L119 \/ W_L124 \/ W_L126 \/ W_L128
  \/ W_L133 \/ W_L134 \/ W_L136 \/ W_L137 \/ W_L146 \/ W_L149 \/ W_L172
  \/ W_L175 \/ W_L175b \/ W_L177 \/ W_L180 \/ W_L184 \/ W_L189 \/ W_L190
  \/ W_Exit \/ W_ExitPop \/ W_ExitCb

StopSteps == S_L74 \/ S_L75 \/ S_L76 \/ S_L76pop \/ S_L76cb \/ S_L77

WaitSteps == Wt_Call \/ Wt_Return \/ Wt_Interrupt \/ Wt_L103 \/ Wt_L105 \/ Wt_L106

FinalizeSteps == F_Call \/ F_L89 \/ F_L92 \/ F_L94 \/ F_L96

Next ==
  \/ Start \/ Worker \/ KillLands
  \/ S_Call \/ StopSteps
  \/ WaitSteps
  \/ FinalizeSteps
  \/ GetState

\* The worker with the callers of Stop() and Wait().
NextStop == Start \/ Worker \/ KillLands \/ S_Call \/ StopSteps \/ WaitSteps

\* The worker with the callers of Stop() and of a Wait() that no interrupt
\* reaches.
NextLive ==
  Start \/ Worker \/ KillLands \/ S_Call \/ StopSteps \/ Wt_Call \/ Wt_Return

\* The worker with the callers of Stop() and Finalize().
NextControl ==
  Start \/ Worker \/ KillLands \/ S_Call \/ StopSteps \/ FinalizeSteps

\* The worker with the callers of Stop() and GetState().
NextQuery == Start \/ Worker \/ KillLands \/ S_Call \/ StopSteps \/ GetState

Spec == Init /\ [][Next]_vars

\* The worker with the callers of Stop() and GetState(), which reads one
\* attribute and writes nothing.
SpecQuery == Init /\ [][NextQuery]_vars

\* The worker with the callers of Stop() and Wait().  Finalize() is left out:
\* it reads and writes the TestState only, as the interrupt handler of Wait()
\* does.
SpecStop == Init /\ [][NextStop]_vars

\* The worker with the callers of Stop() and Finalize().  Wait() is left out:
\* its return tells that the worker has ended, which wpc = "done" tells too.
SpecControl == Init /\ [][NextControl]_vars

\* Fair scheduling, with no interrupt of Wait(): a thread that can take a step
\* eventually takes one, and a requested termination eventually lands in a
\* worker that waits.  Nothing obliges a caller to call.
LiveSpec ==
  /\ Init /\ [][NextLive]_vars
  /\ WF_vars(Worker)
  /\ WF_vars(StopSteps)
  /\ WF_vars(KillLands)
  /\ WF_vars(Wt_Return)

(***************************************************************************)
(* Claims.                                                                 *)
(***************************************************************************)

StopRunning == spc \in {"L74", "L75", "L76", "L76pop", "L76cb", "L77"}

\* C1: no release action registered on the ExitStack is ever invoked twice,
\* and once the worker has ended and no Stop() is running, every registered
\* release action has been invoked exactly once.
ExactlyOnceRelease ==
  /\ \A cb \in Callbacks : invoked[cb] <= 1
  /\ (wpc = "done" /\ ~StopRunning) => \A cb \in registered : invoked[cb] = 1

\* C1 witness: the worker was killed after both registrations, a Stop() has
\* returned, and both release actions ran once.
ExactlyOnceReleaseWitness ==
  /\ wpc = "done" /\ wexc = "Kill" /\ spc = "returned"
  /\ registered = Callbacks
  /\ \A cb \in Callbacks : invoked[cb] = 1

\* C2: once the worker has ended and no Stop() is running, plugs that
\* InitializePlugs set up have been torn down.
NoLeakedPlugs ==
  (wpc = "done" /\ ~StopRunning /\ plugsInit)
    => invoked["TearDownPlugs"] + directTearDown >= 1

\* C3: after a Stop() that completed while the worker was in the start-trigger
\* wait or in plug initialization, the worker never calls SetStatusRunning or
\* pulls a phase outcome, and it ends with TestStopError having torn down the
\* plugs it initialized.
LostRacePath ==
  stopEarly =>
    /\ statusRunning = 0 /\ pulled = 0
    /\ wpc = "done" => /\ wexc = "TestStopError"
                       /\ plugsInit => directTearDown >= 1

\* C4: when both release actions are registered, TearDownPlugs is invoked
\* only after executor.Stop has been invoked and has returned.
ReverseOrderRelease == ~tdEarly

TotalFinalizeCalls ==
  finalizeCalls["L94"] + finalizeCalls["L105"] + finalizeCalls["L180"]
    + finalizeCalls["L184"]

\* C5: TestState.Finalize is invoked at most once in a run, and never on a
\* TestState that is already finalized.
AtMostOneFinalization ==
  /\ TotalFinalizeCalls <= 1
  /\ refinalized = 0

\* C6: after a Stop() that was called once EXECUTING had begun and
\* that began its close with the TestState unfinalized, the record Finalize()
\* returns once the worker has ended has Outcome ABORTED; and the worker never
\* finalizes with the derived outcome once that Stop() has closed the stack.
StopOutcomeAborted ==
  /\ []((stopUnfin /\ wpc = "done" /\ fpc = "L96") => outcome = "ABORTED")
  /\ [][(stopClosed /\ ~is_finalized) => outcome' # "DERIVED"]_vars

\* C7: under fair scheduling, a Stop() called once EXECUTING had begun
\* returns, the worker ends, and a Wait() in progress returns.
StopNoDeadlock ==
  /\ (stopAfterExec /\ StopRunning) ~> (spc = "returned")
  /\ stopAfterExec ~> (wpc = "done")
  /\ (stopAfterExec /\ wtpc = "L101") ~> (wtpc = "returned")

\* C8: a configured teardown phase has run exactly once when a worker that
\* reached EXECUTING has ended.
TeardownAlwaysRuns ==
  (hasTeardown /\ statusRunning > 0 /\ wpc = "done") => teardownRuns = 1

\* C9: with a TestState in place Finalize() returns it finalized; it calls
\* TestState.Finalize only on an unfinalized TestState, and at most once over
\* all its calls.
FinalizeForceFinalizes ==
  /\ fpc # "TestAlreadyFinalized"
  /\ fpc \in {"L96", "returned"} => is_finalized
  /\ finalizeCalls["L94"] <= 1

\* C10: a Wait() that was interrupted ends with that KeyboardInterrupt and no
\* other failure, and leaves the TestState finalized.
WaitInterruptReraised ==
  /\ wtpc \notin {"AttributeError", "TestAlreadyFinalized"}
  /\ wtpc = "KeyboardInterrupt" => is_finalized

\* C11: GetState() never fails, and called before Start() it returns none.
GetStateTotal ==
  /\ gres # "AttributeError"
  /\ (~started /\ gres # "idle") => gres = "None"

\* C12: while no TestState exists, a Finalize() that ends has failed with
\* TestStopError, and TestState.Finalize was not called.
FinalizeNoTestState ==
  test_state # "obj" =>
    /\ fpc \in FinalizeEnded => fpc = "TestStopError"
    /\ TotalFinalizeCalls = 0

\* C13: a Stop() called after an earlier Stop() had returned, or after the
\* worker had ended, invokes no release action and does not fail.
StopIdempotent ==
  stopRepeat => spc \notin {"L76cb", "AttributeError", "IndexError"}

\* The lines at which the worker blocks: the start-trigger wait, plug
\* initialization, the phase iteration and the teardown phase.
BlockingPoints == {"L133", "L134", "L175", "L175b", "L190"}

\* C14: a worker that is blocked does not hold self._lock, so a Stop() that
\* waits for the lock while the worker is blocked can take it.
LockFreeAtBlockingPoints ==
  wpc \in BlockingPoints =>
    /\ lock # "worker"
    /\ spc = "L74" => lock = "none"

\* C14 witness: Stop() holds the lock while the worker is blocked in a phase.
LockFreeAtBlockingPointsWitness ==
  /\ wpc = "L175b" /\ spc = "L75" /\ lock = "stop"

\* A run with no Stop() call, no interrupt, no plug failure, a trigger that
\* returns, and phases that all end without asking for an early halt.
NormalRun ==
  /\ spc = "idle" /\ wexc = "none" /\ trigger # "blocks"
  /\ wpc \notin {"L184", "L175b"} /\ cur # "halt"

\* The worker has ended after one SetStatusRunning, one TestState.Finalize
\* with the derived outcome, and one invocation of each release action.
Completed ==
  /\ wpc = "done" /\ statusRunning = 1
  /\ finalizeCalls["L180"] = 1 /\ TotalFinalizeCalls = 1
  /\ outcome = "DERIVED"
  /\ registered = Callbacks
  /\ \A cb \in Callbacks : invoked[cb] = 1 /\ completed[cb] = 1

\* C15: under fair scheduling a started normal run eventually completes.
NormalCompletion == ([]NormalRun) => (started ~> Completed)

\* C15 witness: a run of the empty phase sequence has completed, with no
\* Stop() call.
NormalCompletionWitness ==
  /\ Completed /\ spc = "idle" /\ wexc = "none" /\ pulled = 0

\* C16: the timeout of the teardown phase the executor holds, and runs at
\* line 190, is the configured teardown_timeout_s.
TeardownTimeoutForced ==
  hasTeardown => timeout_s = teardown_timeout_s

\* C16 witness: a teardown phase that declared another timeout has run with
\* the configured one.
TeardownTimeoutForcedWitness ==
  /\ hasTeardown /\ teardownRuns = 1
  /\ declared # teardown_timeout_s /\ timeout_s = teardown_timeout_s

\* The outcome applied last asked for an early halt.
HaltApplied == applied # <<>> /\ applied[Len(applied)] = "halt"

\* C17: every outcome is applied before the next one is pulled; after an
\* outcome that asked for an early halt nothing more is pulled and the worker
\* calls TestState.Finalize nowhere; otherwise the worker calls
\* TestState.Finalize() at most once, after the last outcome was applied, and
\* has done so when it comes to the teardown phase.
PhaseIterationProtocol ==
  /\ Len(applied) <= pulled /\ pulled <= Len(applied) + 1
  /\ \A i \in 1..(Len(applied) - 1) : applied[i] # "halt"
  /\ HaltApplied => /\ pulled = Len(applied)
                    /\ wpc \notin {"L175", "L175b", "L177", "L180", "L184"}
                    /\ finalizeCalls["L180"] = 0 /\ finalizeCalls["L184"] = 0
  /\ finalizeCalls["L180"] <= 1
  /\ finalizeCalls["L180"] = 1 => pulled = Len(applied)
  /\ (~HaltApplied /\ (wpc \in {"L189", "L190"} \/ teardownRuns > 0))
       => finalizeCalls["L180"] = 1

\* C17 witness: the second outcome asked for an early halt, the teardown
\* phase ran and the worker ended.
PhaseIterationProtocolWitness ==
  /\ Len(applied) = 2 /\ HaltApplied /\ pulled = 2
  /\ teardownRuns = 1 /\ wpc = "done"

\* The lines up to the start-trigger wait.
PreTrigger == {"notstarted", "L114", "L115", "L116", "L119", "L124", "L126",
               "L128", "L133"}

\* C18: while the worker has not come back from the start-trigger wait, no
\* TestState exists and none has been finalized.
TestStateAfterTrigger ==
  wpc \in PreTrigger => (test_state # "obj" /\ ~is_finalized)

\* C19: once a Stop() has closed the ExitStack, no release action is
\* registered on it.
ClosedStackSpent == [][stackClosed => registered' = registered]_vars

\* C20: the worker reads and writes self._exit_stack, and registers the
\* release actions, only with the lock; Stop() reads it and closes the stack
\* only with the lock; so the two are never in progress together.
HandleLockDiscipline ==
  /\ wpc \in {"L115", "L126", "L137", "L146", "L149"} => lock = "worker"
  /\ spc \in {"L75", "L76", "L76pop", "L76cb"} => lock = "stop"
  /\ ~(/\ wpc \in {"L137", "L146", "L149"}
       /\ spc \in {"L75", "L76", "L76pop", "L76cb"})

\* C20 witness: Stop() waits for the lock while the worker registers the
\* release actions.
HandleLockDisciplineWitness ==
  /\ wpc = "L146" /\ lock = "worker" /\ spc = "L74"

====
